---- MODULE Spec2Model ----
(***************************************************************************)
(* Registration form (components/RegistrationForm.tsx), its client rule    *)
(* set (lib/validation.ts of the name/email/password flow), and the        *)
(* registration endpoint (api/routes/users.ts, api/models/user.ts).        *)
(*                                                                         *)
(* Strings are sequences of one-character strings, so that length, trim,   *)
(* lower-casing and the regular expressions are computed, not assumed.     *)
(* Messages are atomic strings.                                            *)
(*                                                                         *)
(* The form runs on a single-threaded event loop: a handler runs to its    *)
(* first await without interruption.  handlerPc says where the running     *)
(* handler is; every event is accepted only when handlerPc = "ready".      *)
(* A handler reads the state committed by the handlers before it.          *)
(***************************************************************************)
EXTENDS Integers, Sequences, FiniteSets, TLC

(***************************************************************************)
(* Characters and string primitives                                        *)
(***************************************************************************)
UpperSeq ==
  <<"A","B","C","D","E","F","G","H","I","J","K","L","M",
    "N","O","P","Q","R","S","T","U","V","W","X","Y","Z">>

LowerSeq ==
  <<"a","b","c","d","e","f","g","h","i","j","k","l","m",
    "n","o","p","q","r","s","t","u","v","w","x","y","z">>

SeqRange(s) == { s[i] : i \in 1..Len(s) }

UpperCase == SeqRange(UpperSeq)

LowerCase == SeqRange(LowerSeq)

Digits == {"0","1","2","3","4","5","6","7","8","9"}

SpecialChars ==
  {"!","@","#","$","%","^","&","*","(",")",",",".","?","\"",":","{","}","|","<",">"}

Whitespace == {" ", "\t", "\n"}

GmailLocalChars == UpperCase \cup LowerCase \cup Digits \cup {".","_","%","+","-"}

\* String.prototype.toLowerCase, one character
LowerChar(c) ==
  IF c \in UpperCase
    THEN LowerSeq[CHOOSE i \in 1..Len(UpperSeq) : UpperSeq[i] = c]
    ELSE c

\* String.prototype.toLowerCase
ToLowerCase(s) == [ i \in 1..Len(s) |-> LowerChar(s[i]) ]

\* String.prototype.trim
Trim(s) ==
  LET keep == { i \in 1..Len(s) : s[i] \notin Whitespace }
  IN  IF keep = {} THEN << >>
      ELSE LET lo == CHOOSE i \in keep : \A j \in keep : i <= j
               hi == CHOOSE i \in keep : \A j \in keep : j <= i
           IN  SubSeq(s, lo, hi)

\* /[X]/.test(s) for a character class X
HasCharIn(s, class) == \E i \in 1..Len(s) : s[i] \in class

\* the literal "@gmail.com"
GmailSuffix == <<"@","g","m","a","i","l",".","c","o","m">>

\* the literal 'test@gmail.com'
SentinelEmail == <<"t","e","s","t">> \o GmailSuffix

\* /^[^\s@]+@[^\s@]+\.[^\s@]+$/.test(s)
EmailRegexTest(s) ==
  /\ \A k \in 1..Len(s) : s[k] \notin Whitespace
  /\ \E i \in 2..Len(s) :
       /\ s[i] = "@"
       /\ \A k \in 1..Len(s) : s[k] = "@" => k = i
       /\ \E j \in (i+2)..(Len(s)-1) : s[j] = "."

\* /^[a-zA-Z0-9._%+-]+@gmail\.com$/i.test(s)
GmailRegexTest(s) ==
  /\ Len(s) > Len(GmailSuffix)
  /\ LET n == Len(s) - Len(GmailSuffix)
     IN  /\ ToLowerCase(SubSeq(s, n + 1, Len(s))) = GmailSuffix
         /\ \A k \in 1..n : s[k] \in GmailLocalChars

(***************************************************************************)
(* Client rule set: ValidationResult records                               *)
(***************************************************************************)
Undefined == "undefined"

Valid == [isValid |-> TRUE, message |-> Undefined]

Invalid(msg) == [isValid |-> FALSE, message |-> msg]

MinNameLen == 2

MinPasswordLen == 8

MaxPasswordLen == 30

validateFirstName(firstName) ==
  IF Len(firstName) = 0 THEN Invalid("First name is required")
  ELSE IF Len(Trim(firstName)) < MinNameLen
    THEN Invalid("First name must be at least 2 characters")
  ELSE Valid

validateLastName(lastName) ==
  IF Len(lastName) = 0 THEN Invalid("Last name is required")
  ELSE IF Len(Trim(lastName)) < MinNameLen
    THEN Invalid("Last name must be at least 2 characters")
  ELSE Valid

\* validateEmail comparing the address as typed with the sentinel
validateEmail_ExactSentinel(email) ==
  IF Len(email) = 0 THEN Invalid("Email is required")
  ELSE IF ~EmailRegexTest(email) THEN Invalid("Please enter a valid email address")
  ELSE IF ~GmailRegexTest(email) THEN Invalid("Only Gmail addresses are accepted")
  ELSE IF email = SentinelEmail
    THEN Invalid("This email address is already registered")
  ELSE Valid

validateEmail(email) ==
  IF Len(email) = 0 THEN Invalid("Email is required")
  ELSE IF ~EmailRegexTest(email) THEN Invalid("Please enter a valid email address")
  ELSE IF ~GmailRegexTest(email) THEN Invalid("Only Gmail addresses are accepted")
  ELSE IF ToLowerCase(email) = SentinelEmail
    THEN Invalid("This email address is already registered")
  ELSE Valid

\* validatePassword without the check of the digit
validatePassword_NoDigitCheck(password) ==
  IF Len(password) = 0 THEN Invalid("Password is required")
  ELSE IF Len(password) < MinPasswordLen
    THEN Invalid("Password must be at least 8 characters")
  ELSE IF Len(password) > MaxPasswordLen
    THEN Invalid("Password must not exceed 30 characters")
  ELSE IF ~HasCharIn(password, UpperCase)
    THEN Invalid("Password must contain at least one uppercase letter")
  ELSE IF ~HasCharIn(password, LowerCase)
    THEN Invalid("Password must contain at least one lowercase letter")
  ELSE IF ~HasCharIn(password, SpecialChars)
    THEN Invalid("Password must contain at least one special character")
  ELSE Valid

validatePassword(password) ==
  IF Len(password) = 0 THEN Invalid("Password is required")
  ELSE IF Len(password) < MinPasswordLen
    THEN Invalid("Password must be at least 8 characters")
  ELSE IF Len(password) > MaxPasswordLen
    THEN Invalid("Password must not exceed 30 characters")
  ELSE IF ~HasCharIn(password, UpperCase)
    THEN Invalid("Password must contain at least one uppercase letter")
  ELSE IF ~HasCharIn(password, LowerCase)
    THEN Invalid("Password must contain at least one lowercase letter")
  ELSE IF ~HasCharIn(password, Digits)
    THEN Invalid("Password must contain at least one number")
  ELSE IF ~HasCharIn(password, SpecialChars)
    THEN Invalid("Password must contain at least one special character")
  ELSE Valid

(***************************************************************************)
(* Rule set of the flow with confirmation, date of birth and terms         *)
(***************************************************************************)
\* lib/validation.ts validateEmail
libValidateEmail(email) ==
  IF Len(email) = 0 THEN Invalid("Email is required")
  ELSE IF ~EmailRegexTest(email) THEN Invalid("Please enter a valid email address")
  ELSE Valid

\* lib/validation.ts validatePassword
libValidatePassword(password) ==
  IF Len(password) = 0 THEN Invalid("Password is required")
  ELSE IF Len(password) < MinPasswordLen
    THEN Invalid("Password must be at least 8 characters long")
  ELSE IF ~HasCharIn(password, UpperCase)
    THEN Invalid("Password must contain at least one uppercase letter")
  ELSE IF ~HasCharIn(password, LowerCase)
    THEN Invalid("Password must contain at least one lowercase letter")
  ELSE IF ~HasCharIn(password, Digits)
    THEN Invalid("Password must contain at least one number")
  ELSE IF ~HasCharIn(password, SpecialChars)
    THEN Invalid("Password must contain at least one special character")
  ELSE Valid

\* validateConfirmPassword that only checks that the confirmation is not empty
validateConfirmPassword_EmptyOnly(password, confirmPassword) ==
  IF Len(confirmPassword) = 0 THEN Invalid("Please confirm your password")
  ELSE Valid

\* lib/validation.ts validateConfirmPassword
validateConfirmPassword(password, confirmPassword) ==
  IF Len(confirmPassword) = 0 THEN Invalid("Please confirm your password")
  ELSE IF password # confirmPassword THEN Invalid("Passwords do not match")
  ELSE Valid

\* a calendar date
Date(y, m, d) == [y |-> y, m |-> m, d |-> d]

IsLeapYear(y) == (y % 4 = 0 /\ y % 100 # 0) \/ y % 400 = 0

DaysInMonth(y, m) ==
  IF m = 2 THEN (IF IsLeapYear(y) THEN 29 ELSE 28)
  ELSE IF m \in {4, 6, 9, 11} THEN 30
  ELSE 31

PrevDay(date) ==
  IF date.d > 1 THEN Date(date.y, date.m, date.d - 1)
  ELSE IF date.m > 1 THEN Date(date.y, date.m - 1, DaysInMonth(date.y, date.m - 1))
  ELSE Date(date.y - 1, 12, 31)

NextDay(date) ==
  IF date.d < DaysInMonth(date.y, date.m) THEN Date(date.y, date.m, date.d + 1)
  ELSE IF date.m < 12 THEN Date(date.y, date.m + 1, 1)
  ELSE Date(date.y + 1, 1, 1)

\* a point in time as the wall clock of the browser's time zone shows it
WallTime(date, hour) == [date |-> date, hour |-> hour]

\* new Date('YYYY-MM-DD'): midnight UTC of that day, as the wall clock of a
\* zone offset hours east of UTC shows it
parseDateOnly(date, offset) ==
  IF offset >= 0 THEN WallTime(date, offset)
  ELSE WallTime(PrevDay(date), 24 + offset)

\* a >= b on Date objects
NotBefore(a, b) ==
  \/ a.date.y > b.date.y
  \/ a.date.y = b.date.y /\ a.date.m > b.date.m
  \/ a.date.y = b.date.y /\ a.date.m = b.date.m /\ a.date.d > b.date.d
  \/ a.date = b.date /\ a.hour >= b.hour

\* lib/validation.ts validateDateOfBirth; getFullYear, getMonth and getDate read the wall clock
validateDateOfBirth(input) ==
  IF input.kind = "empty" THEN Invalid("Date of birth is required")
  ELSE IF input.kind = "invalid" THEN Invalid("Please enter a valid date")
  ELSE LET date == parseDateOnly(input.date, input.offset)
           today == WallTime(input.today, input.hour)
       IN  IF NotBefore(date, today) THEN Invalid("Date of birth must be in the past")
           ELSE LET age == today.date.y - date.date.y
                    monthDiff == today.date.m - date.date.m
                    dayDiff == today.date.d - date.date.d
                    actualAge == IF monthDiff < 0 \/ (monthDiff = 0 /\ dayDiff < 0)
                                   THEN age - 1 ELSE age
                IN  IF actualAge < 18 THEN Invalid("You must be at least 18 years old")
                    ELSE Valid

\* result.isValid ? undefined : result.message
messageOf(result) == IF result.isValid THEN Undefined ELSE result.message

(***************************************************************************)
(* The form: state of RegistrationForm                                     *)
(***************************************************************************)
VARIABLES
  formData,       \* useState<FormData>
  errors,         \* useState<FieldError>: a map from the keys present to a message or Undefined
  touchedFields,  \* useState<Set<keyof FormData>>
  formState,      \* useState<FormState>
  isSubmitting,   \* useState(false)
  handlerPc,      \* position of the running handleSubmit: "ready" when no handler runs
  calls,          \* registration calls in flight, each the payload it was issued with
  timers,         \* pending setTimeout callbacks, each its delay, in firing order
  lastEvent,      \* the handler that ran last
  lastResponse,   \* the response the last call completion consumed
  users,          \* the rows of the users table
  nextId,         \* the SERIAL sequence of users.id
  reqs,           \* the requests: kind, position, body, locals and response of each
  payload,        \* a payload {firstName, lastName, email, password} given to both rule sets
  clientVerdict,  \* what the client rule set says of the payload
  serverVerdict,  \* what the server mirror says of the payload
  libVerdict,     \* what the rule set of the other flow says of the payload's email and password
  dobInput,       \* a date-of-birth string with the clock and time zone it is validated under
  dobVerdict,     \* what validateDateOfBirth says of dobInput
  vForm,          \* the other flow's form: password and confirmPassword
  vErrors,        \* the other flow's form: error map
  vTouched,       \* the other flow's form: touched set
  vLast           \* the other flow's form: the handler that ran last

formVars ==
  <<formData, errors, touchedFields, formState, isSubmitting, handlerPc,
    calls, timers, lastEvent, lastResponse>>

serverVars == <<users, nextId, reqs>>

ruleVars == <<payload, clientVerdict, serverVerdict, libVerdict>>

dateVars == <<dobInput, dobVerdict>>

confirmVars == <<vForm, vErrors, vTouched, vLast>>

variantVars == <<dateVars, confirmVars>>

vars == <<formVars, serverVars, ruleVars, variantVars>>

\* the React state of the component, without the model's bookkeeping
componentState == <<formData, errors, touchedFields, formState, isSubmitting>>

\* Object.keys(formData), in insertion order
FieldOrder == <<"firstName", "lastName", "email", "password">>

Fields == SeqRange(FieldOrder)

FormStates == {"idle", "warning", "failure", "success"}

EmptyString == << >>

initialFormData == [ f \in Fields |-> EmptyString ]

\* the empty object {}
EmptyMap == [ k \in {} |-> Undefined ]

\* { ...prev, [k]: v }
SetKey(m, k, v) == [ x \in (DOMAIN m) \cup {k} |-> IF x = k THEN v ELSE m[x] ]

\* setTimeout(..., 3000)
RESET_DELAY_MS == 3000

validateField(name, value) ==
  LET result ==
        CASE name = "firstName" -> validateFirstName(value)
          [] name = "lastName"  -> validateLastName(value)
          [] name = "email"     -> validateEmail(value)
          [] name = "password"  -> validatePassword(value)
  IN  IF name \notin Fields THEN Undefined
      ELSE IF result.isValid THEN Undefined ELSE result.message

\* validateForm stopping at the first failing field
validateFormErrors_FirstOnly(data) ==
  LET failing == { i \in 1..Len(FieldOrder) : validateField(FieldOrder[i], data[FieldOrder[i]]) # Undefined }
  IN  IF failing = {} THEN EmptyMap
      ELSE LET first == FieldOrder[CHOOSE i \in failing : \A j \in failing : i <= j]
           IN  SetKey(EmptyMap, first, validateField(first, data[first]))

\* newErrors as validateForm builds it: one key per failing field
validateFormErrors(data) ==
  [ k \in { f \in Fields : validateField(f, data[f]) # Undefined }
      |-> validateField(k, data[k]) ]

\* Object.values(errors).some(err => err is not undefined)
hasAnyErrors(errs) == \E k \in DOMAIN errs : errs[k] # Undefined

\* the error prop the form passes to the Input of field f: errors.f
errorProp(errs, f) == IF f \in DOMAIN errs THEN errs[f] ELSE Undefined

\* Input showing the error whenever there is one, touched or not
hasError_IgnoresTouched(touched, error) == error # Undefined

\* Input: const hasError = touched && error
hasError(touched, error) == touched /\ error # Undefined

\* whether the Input of field f renders its error message
errorRendered(errs, touchedSet, f) == hasError(f \in touchedSet, errorProp(errs, f))

(***************************************************************************)
(* Inputs: what the user types and what the registration call answers      *)
(***************************************************************************)
John == <<"J","o","h","n">>

Doe == <<"D","o","e">>

JohnGmail == John \o GmailSuffix

GoodPassword == <<"P","a","s","s","w","o","r","d","1","!">>

FieldValues(f) ==
  CASE f = "firstName" -> { EmptyString, <<"J">>, John }
    [] f = "lastName"  -> { EmptyString, Doe }
    [] f = "email"     -> { EmptyString, JohnGmail, SentinelEmail }
    [] f = "password"  -> { EmptyString, GoodPassword }

MaxErrors == 2

MaxTimers == 2

\* the entries a server error list is made of: two messages for a form field,
\* and one naming a field the form does not have
ErrorEntries ==
  { [field |-> "email", message |-> "This email address is already registered"],
    [field |-> "email", message |-> "Only Gmail addresses are accepted"],
    [field |-> "username", message |-> "Username is required"] }

ErrorLists == UNION { [1..n -> ErrorEntries] : n \in 0..MaxErrors }

\* What a registration call can end with.  throws: fetch or response.json()
\* rejects; otherwise ok is response.ok, success is data.success, isArray is
\* Array.isArray(data.errors) and list is data.errors when it is an array.
ThrowResponse ==
  [kind |-> "throws", ok |-> FALSE, success |-> FALSE, isArray |-> FALSE, list |-> << >>]

NoResponse ==
  [kind |-> "none", ok |-> FALSE, success |-> FALSE, isArray |-> FALSE, list |-> << >>]

Responses ==
  {ThrowResponse}
  \cup [kind : {"response"}, ok : BOOLEAN, success : BOOLEAN, isArray : {FALSE}, list : {<< >>}]
  \cup [kind : {"response"}, ok : BOOLEAN, success : BOOLEAN, isArray : {TRUE}, list : ErrorLists]

\* data.errors.forEach((error) => { newErrors[error.field] = error.message })
RECURSIVE errorsFromList(_, _)
errorsFromList(list, acc) ==
  IF list = << >> THEN acc
  ELSE errorsFromList(Tail(list), SetKey(acc, Head(list).field, Head(list).message))

(***************************************************************************)
(* The form: handlers                                                      *)
(***************************************************************************)
InitForm ==
  /\ formData = initialFormData
  /\ errors = EmptyMap
  /\ touchedFields = {}
  /\ formState = "idle"
  /\ isSubmitting = FALSE
  /\ handlerPc = "ready"
  /\ calls = << >>
  /\ timers = << >>
  /\ lastEvent = "none"
  /\ lastResponse = NoResponse

\* handleChange that also clears the status message on every edit
handleChange_ClearsStatus(f, v) ==
  /\ handlerPc = "ready"
  /\ formData' = [formData EXCEPT ![f] = v]
  /\ errors' = IF f \in touchedFields
                 THEN SetKey(errors, f, validateField(f, v))
                 ELSE errors
  /\ formState' = "idle"
  /\ lastEvent' = "change"
  /\ lastResponse' = NoResponse
  /\ UNCHANGED <<touchedFields, isSubmitting, handlerPc, calls, timers, serverVars, ruleVars, variantVars>>

\* handleChange: a change event of field f to value v
handleChange(f, v) ==
  /\ handlerPc = "ready"
  /\ formData' = [formData EXCEPT ![f] = v]
  /\ errors' = IF f \in touchedFields
                 THEN SetKey(errors, f, validateField(f, v))
                 ELSE errors
  /\ lastEvent' = "change"
  /\ lastResponse' = NoResponse
  /\ UNCHANGED <<touchedFields, formState, isSubmitting, handlerPc, calls, timers, serverVars, ruleVars, variantVars>>

\* handleBlur validating the whole form instead of the blurred field
handleBlur_ValidatesAll(f) ==
  /\ handlerPc = "ready"
  /\ touchedFields' = touchedFields \cup {f}
  /\ errors' = validateFormErrors(formData)
  /\ lastEvent' = "blur"
  /\ lastResponse' = NoResponse
  /\ UNCHANGED <<formData, formState, isSubmitting, handlerPc, calls, timers, serverVars, ruleVars, variantVars>>

\* handleBlur: a blur event of field f, whose input shows formData[f]
handleBlur(f) ==
  /\ handlerPc = "ready"
  /\ touchedFields' = touchedFields \cup {f}
  /\ errors' = SetKey(errors, f, validateField(f, formData[f]))
  /\ lastEvent' = "blur"
  /\ lastResponse' = NoResponse
  /\ UNCHANGED <<formData, formState, isSubmitting, handlerPc, calls, timers, serverVars, ruleVars, variantVars>>

\* handleSubmit without setFormState("idle")
handleSubmit_KeepsState ==
  /\ handlerPc = "ready"
  /\ Len(timers) < MaxTimers \/ isSubmitting
  /\ lastEvent' = "submit"
  /\ lastResponse' = NoResponse
  /\ IF isSubmitting
       THEN UNCHANGED <<isSubmitting, formState, handlerPc>>
       ELSE /\ isSubmitting' = TRUE
            /\ formState' = formState
            /\ handlerPc' = "validate"
  /\ UNCHANGED <<formData, errors, touchedFields, calls, timers, serverVars, ruleVars, variantVars>>

\* handleSubmit without the re-entry guard of line 110
handleSubmit_NoGuard ==
  /\ handlerPc = "ready"
  /\ lastEvent' = "submit"
  /\ lastResponse' = NoResponse
  /\ isSubmitting' = TRUE
  /\ formState' = "idle"
  /\ handlerPc' = "validate"
  /\ UNCHANGED <<formData, errors, touchedFields, calls, timers, serverVars, ruleVars, variantVars>>

\* handleSubmit up to validateForm: the re-entry guard, then the two setters
handleSubmit ==
  /\ handlerPc = "ready"
  /\ Len(timers) < MaxTimers \/ isSubmitting
  /\ lastEvent' = "submit"
  /\ lastResponse' = NoResponse
  /\ IF isSubmitting
       THEN UNCHANGED <<isSubmitting, formState, handlerPc>>
       ELSE /\ isSubmitting' = TRUE
            /\ formState' = "idle"
            /\ handlerPc' = "validate"
  /\ UNCHANGED <<formData, errors, touchedFields, calls, timers, serverVars, ruleVars, variantVars>>

\* handleSubmit from validateForm() to the fetch: validateForm, then either
\* the early return or the warning state and the call
submitValidate ==
  /\ handlerPc = "validate"
  /\ LET newErrors == validateFormErrors(formData)
         isValid == ~(\E k \in DOMAIN newErrors : TRUE)
     IN  /\ errors' = newErrors
         /\ touchedFields' = Fields
         /\ IF ~isValid
              THEN /\ formState' = "failure"
                   /\ isSubmitting' = FALSE
                   /\ calls' = calls
                   /\ lastEvent' = "validationFailed"
              ELSE /\ formState' = "warning"
                   /\ calls' = Append(calls, formData)
                   /\ isSubmitting' = isSubmitting
                   /\ lastEvent' = "callIssued"
  /\ handlerPc' = "ready"
  /\ lastResponse' = NoResponse
  /\ UNCHANGED <<formData, timers, serverVars, ruleVars, variantVars>>

\* the continuation merging the server's errors into the previous error map
callCompletes_MergesErrors(i, resp) ==
  /\ handlerPc = "ready"
  /\ i \in 1..Len(calls)
  /\ calls' = [ k \in 1..(Len(calls) - 1) |-> IF k < i THEN calls[k] ELSE calls[k + 1] ]
  /\ IF resp.kind = "throws"
       THEN /\ formState' = "failure"
            /\ errors' = SetKey(EmptyMap, "email",
                                "Unable to connect to server. Please try again.")
            /\ timers' = timers
       ELSE IF resp.ok /\ resp.success
       THEN /\ formState' = "success"
            /\ timers' = Append(timers, RESET_DELAY_MS)
            /\ errors' = errors
       ELSE /\ formState' = "failure"
            /\ errors' = IF resp.isArray
                           THEN errorsFromList(resp.list, errors)
                           ELSE SetKey(EmptyMap, "email",
                                       "An error occurred during registration")
            /\ timers' = timers
  /\ isSubmitting' = FALSE
  /\ lastEvent' = "callCompleted"
  /\ lastResponse' = resp
  /\ UNCHANGED <<formData, touchedFields, handlerPc, serverVars, ruleVars, variantVars>>

\* the continuation with the same message in the else branch and in the catch
callCompletes_OneGenericMessage(i, resp) ==
  /\ handlerPc = "ready"
  /\ i \in 1..Len(calls)
  /\ calls' = [ k \in 1..(Len(calls) - 1) |-> IF k < i THEN calls[k] ELSE calls[k + 1] ]
  /\ IF resp.kind = "throws"
       THEN /\ formState' = "failure"
            /\ errors' = SetKey(EmptyMap, "email",
                                "An error occurred during registration")
            /\ timers' = timers
       ELSE IF resp.ok /\ resp.success
       THEN /\ formState' = "success"
            /\ timers' = Append(timers, RESET_DELAY_MS)
            /\ errors' = errors
       ELSE /\ formState' = "failure"
            /\ errors' = IF resp.isArray
                           THEN errorsFromList(resp.list, EmptyMap)
                           ELSE SetKey(EmptyMap, "email",
                                       "An error occurred during registration")
            /\ timers' = timers
  /\ isSubmitting' = FALSE
  /\ lastEvent' = "callCompleted"
  /\ lastResponse' = resp
  /\ UNCHANGED <<formData, touchedFields, handlerPc, serverVars, ruleVars, variantVars>>

\* the continuation with setIsSubmitting(false) at the end of the try block
\* instead of in a finally
callCompletes_NoFinally(i, resp) ==
  /\ handlerPc = "ready"
  /\ i \in 1..Len(calls)
  /\ calls' = [ k \in 1..(Len(calls) - 1) |-> IF k < i THEN calls[k] ELSE calls[k + 1] ]
  /\ IF resp.kind = "throws"
       THEN /\ formState' = "failure"
            /\ errors' = SetKey(EmptyMap, "email",
                                "Unable to connect to server. Please try again.")
            /\ timers' = timers
            /\ isSubmitting' = isSubmitting
       ELSE IF resp.ok /\ resp.success
       THEN /\ formState' = "success"
            /\ timers' = Append(timers, RESET_DELAY_MS)
            /\ errors' = errors
            /\ isSubmitting' = FALSE
       ELSE /\ formState' = "failure"
            /\ errors' = IF resp.isArray
                           THEN errorsFromList(resp.list, EmptyMap)
                           ELSE SetKey(EmptyMap, "email",
                                       "An error occurred during registration")
            /\ timers' = timers
            /\ isSubmitting' = FALSE
  /\ lastEvent' = "callCompleted"
  /\ lastResponse' = resp
  /\ UNCHANGED <<formData, touchedFields, handlerPc, serverVars, ruleVars, variantVars>>

\* the continuation whose catch sets the message but not the failure state
callCompletes_CatchKeepsState(i, resp) ==
  /\ handlerPc = "ready"
  /\ i \in 1..Len(calls)
  /\ calls' = [ k \in 1..(Len(calls) - 1) |-> IF k < i THEN calls[k] ELSE calls[k + 1] ]
  /\ IF resp.kind = "throws"
       THEN /\ formState' = formState
            /\ errors' = SetKey(EmptyMap, "email",
                                "Unable to connect to server. Please try again.")
            /\ timers' = timers
       ELSE IF resp.ok /\ resp.success
       THEN /\ formState' = "success"
            /\ timers' = Append(timers, RESET_DELAY_MS)
            /\ errors' = errors
       ELSE /\ formState' = "failure"
            /\ errors' = IF resp.isArray
                           THEN errorsFromList(resp.list, EmptyMap)
                           ELSE SetKey(EmptyMap, "email",
                                       "An error occurred during registration")
            /\ timers' = timers
  /\ isSubmitting' = FALSE
  /\ lastEvent' = "callCompleted"
  /\ lastResponse' = resp
  /\ UNCHANGED <<formData, touchedFields, handlerPc, serverVars, ruleVars, variantVars>>

\* handleSubmit after the awaits: call i ends with response resp
callCompletes(i, resp) ==
  /\ handlerPc = "ready"
  /\ i \in 1..Len(calls)
  /\ calls' = [ k \in 1..(Len(calls) - 1) |-> IF k < i THEN calls[k] ELSE calls[k + 1] ]
  /\ IF resp.kind = "throws"
       THEN /\ formState' = "failure"
            /\ errors' = SetKey(EmptyMap, "email",
                                "Unable to connect to server. Please try again.")
            /\ timers' = timers
       ELSE IF resp.ok /\ resp.success
       THEN /\ formState' = "success"
            /\ timers' = Append(timers, RESET_DELAY_MS)
            /\ errors' = errors
       ELSE /\ formState' = "failure"
            /\ errors' = IF resp.isArray
                           THEN errorsFromList(resp.list, EmptyMap)
                           ELSE SetKey(EmptyMap, "email",
                                       "An error occurred during registration")
            /\ timers' = timers
  /\ isSubmitting' = FALSE
  /\ lastEvent' = "callCompleted"
  /\ lastResponse' = resp
  /\ UNCHANGED <<formData, touchedFields, handlerPc, serverVars, ruleVars, variantVars>>

\* the reset callback without setTouchedFields(new Set())
resetTimerFires_KeepsTouched ==
  /\ handlerPc = "ready"
  /\ timers # << >>
  /\ timers' = Tail(timers)
  /\ formData' = initialFormData
  /\ errors' = EmptyMap
  /\ formState' = "idle"
  /\ lastEvent' = "timerFired"
  /\ lastResponse' = NoResponse
  /\ UNCHANGED <<touchedFields, isSubmitting, handlerPc, calls, serverVars, ruleVars, variantVars>>

\* the setTimeout callback of a successful submission
resetTimerFires ==
  /\ handlerPc = "ready"
  /\ timers # << >>
  /\ timers' = Tail(timers)
  /\ formData' = initialFormData
  /\ errors' = EmptyMap
  /\ touchedFields' = {}
  /\ formState' = "idle"
  /\ lastEvent' = "timerFired"
  /\ lastResponse' = NoResponse
  /\ UNCHANGED <<isSubmitting, handlerPc, calls, serverVars, ruleVars, variantVars>>

(***************************************************************************)
(* The registration endpoint: request values, the server mirror            *)
(* (api/middleware/validation.ts), createUser and the route handler        *)
(***************************************************************************)
\* A JSON value of a request body: a string, or a field that is absent
Str(s) == [t |-> "string", v |-> s]

UndefinedValue == [t |-> "undefined", v |-> << >>]

\* !x || typeof x is not 'string'
Missing(x) == x.t # "string" \/ Len(x.v) = 0

None == "null"

MaxNameLen == 100

serverValidateFirstName(firstName) ==
  IF Missing(firstName) THEN "First name is required"
  ELSE IF Len(Trim(firstName.v)) < MinNameLen
    THEN "First name must be at least 2 characters"
  ELSE IF Len(Trim(firstName.v)) > MaxNameLen
    THEN "First name must not exceed 100 characters"
  ELSE None

serverValidateLastName(lastName) ==
  IF Missing(lastName) THEN "Last name is required"
  ELSE IF Len(Trim(lastName.v)) < MinNameLen
    THEN "Last name must be at least 2 characters"
  ELSE IF Len(Trim(lastName.v)) > MaxNameLen
    THEN "Last name must not exceed 100 characters"
  ELSE None

serverValidateEmail(email) ==
  IF Missing(email) THEN "Email is required"
  ELSE LET trimmed == Trim(email.v)
       IN  IF ~EmailRegexTest(trimmed) THEN "Please enter a valid email address"
           ELSE IF ~GmailRegexTest(trimmed) THEN "Only Gmail addresses are accepted"
           ELSE IF ToLowerCase(trimmed) = SentinelEmail
             THEN "This email address is already registered"
           ELSE None

\* the mirror's password rule with the lower-case check before the upper-case check
serverValidatePassword_LowerFirst(password) ==
  IF Missing(password) THEN "Password is required"
  ELSE IF Len(password.v) < MinPasswordLen
    THEN "Password must be at least 8 characters"
  ELSE IF Len(password.v) > MaxPasswordLen
    THEN "Password must not exceed 30 characters"
  ELSE IF ~HasCharIn(password.v, LowerCase)
    THEN "Password must contain at least one lowercase letter"
  ELSE IF ~HasCharIn(password.v, UpperCase)
    THEN "Password must contain at least one uppercase letter"
  ELSE IF ~HasCharIn(password.v, Digits)
    THEN "Password must contain at least one number"
  ELSE IF ~HasCharIn(password.v, SpecialChars)
    THEN "Password must contain at least one special character"
  ELSE None

serverValidatePassword(password) ==
  IF Missing(password) THEN "Password is required"
  ELSE IF Len(password.v) < MinPasswordLen
    THEN "Password must be at least 8 characters"
  ELSE IF Len(password.v) > MaxPasswordLen
    THEN "Password must not exceed 30 characters"
  ELSE IF ~HasCharIn(password.v, UpperCase)
    THEN "Password must contain at least one uppercase letter"
  ELSE IF ~HasCharIn(password.v, LowerCase)
    THEN "Password must contain at least one lowercase letter"
  ELSE IF ~HasCharIn(password.v, Digits)
    THEN "Password must contain at least one number"
  ELSE IF ~HasCharIn(password.v, SpecialChars)
    THEN "Password must contain at least one special character"
  ELSE None

\* the errors array without the check of the first name
registrationErrors_SkipsFirstName(body) ==
  LET one(field, msg) == IF msg = None THEN << >>
                         ELSE << [field |-> field, message |-> msg] >>
  IN  one("lastName", serverValidateLastName(body.lastName))
      \o one("email", serverValidateEmail(body.email))
      \o one("password", serverValidatePassword(body.password))

\* validateRegistration returning at the first failing field
registrationErrors_ShortCircuit(body) ==
  LET one(field, msg) == IF msg = None THEN << >>
                         ELSE << [field |-> field, message |-> msg] >>
      all == one("firstName", serverValidateFirstName(body.firstName))
             \o one("lastName", serverValidateLastName(body.lastName))
             \o one("email", serverValidateEmail(body.email))
             \o one("password", serverValidatePassword(body.password))
  IN  IF all = << >> THEN << >> ELSE << Head(all) >>

\* the errors array validateRegistration builds, in push order
registrationErrors(body) ==
  LET one(field, msg) == IF msg = None THEN << >>
                         ELSE << [field |-> field, message |-> msg] >>
  IN  one("firstName", serverValidateFirstName(body.firstName))
      \o one("lastName", serverValidateLastName(body.lastName))
      \o one("email", serverValidateEmail(body.email))
      \o one("password", serverValidatePassword(body.password))

\* req.body after the trims that precede next()
trimmedBody(body) ==
  [body EXCEPT !.firstName = Str(Trim(body.firstName.v)),
               !.lastName = Str(Trim(body.lastName.v)),
               !.email = Str(Trim(body.email.v))]

\* hashPassword returning the password as given
hashPassword_Plaintext(password) == password

\* bcrypt.hash(password, SALT_ROUNDS): never the plaintext, and one hash per password
hashPassword(password) == <<"$","2","b","$">> \o password

\* userToResponse copying the stored hash as well
userToResponse_WithPassword(user) ==
  [id |-> user.id, firstName |-> user.first_name, lastName |-> user.last_name,
   email |-> user.email, createdAt |-> user.created_at, password |-> user.password]

\* userToResponse
userToResponse(user) ==
  [id |-> user.id, firstName |-> user.first_name, lastName |-> user.last_name,
   email |-> user.email, createdAt |-> user.created_at]

\* SELECT * FROM users WHERE email = $1 with $1 = email as given
findUserByEmail_CaseSensitive(table, email) == { u \in table : u.email = email }

\* SELECT * FROM users WHERE email = $1, with $1 = email.toLowerCase()
findUserByEmail(table, email) == { u \in table : u.email = ToLowerCase(email) }

\* DELETE FROM users WHERE email = $1 with $1 = email as given
deleteUserByEmail_CaseSensitive(table, email) == { u \in table : u.email # email }

\* DELETE FROM users WHERE email = $1, with $1 = email.toLowerCase(): the rows that remain
deleteUserByEmail(table, email) == { u \in table : u.email # ToLowerCase(email) }

\* SELECT * FROM users ORDER BY created_at DESC
RECURSIVE getAllUsersRows(_)
getAllUsersRows(table) ==
  IF table = {} THEN << >>
  ELSE LET newest == CHOOSE u \in table : \A w \in table : w.created_at <= u.created_at
       IN  <<newest>> \o getAllUsersRows(table \ {newest})

\* getAllUsers: result.rows.map(userToResponse)
getAllUsers(table) ==
  LET rows == getAllUsersRows(table)
  IN  [ i \in 1..Len(rows) |-> userToResponse(rows[i]) ]

\* messages of the errors createUser can throw
EmailAlreadyRegistered == "Email already registered"

\* the error pg raises for the UNIQUE constraint on users.email; query() rethrows it
UniqueViolation == "duplicate key value violates unique constraint"

\* the error query() rethrows when the pool cannot run the statement
ConnectionFailure == "Database connection failed"

NoError == ""

NoData == [ k \in {} |-> None ]

NoReply ==
  [status |-> 0, success |-> FALSE, errors |-> << >>, message |-> "",
   data |-> NoData, list |-> << >>]

DuplicateEmailReply ==
  [status |-> 409, success |-> FALSE,
   errors |-> << [field |-> "email", message |-> "This email address is already registered"] >>,
   message |-> "", data |-> NoData, list |-> << >>]

ServerErrorReply ==
  [status |-> 500, success |-> FALSE, errors |-> << >>,
   message |-> "An error occurred during registration", data |-> NoData, list |-> << >>]

ValidationErrorReply(errs) ==
  [status |-> 400, success |-> FALSE, errors |-> errs, message |-> "",
   data |-> NoData, list |-> << >>]

CreatedReply(user) ==
  [status |-> 201, success |-> TRUE, errors |-> << >>,
   message |-> "Registration successful", data |-> user, list |-> << >>]

\* the catch block answering 500 with the message of the caught error
registerCatch_LeaksMessage(message) ==
  IF message = EmailAlreadyRegistered THEN DuplicateEmailReply
  ELSE [ServerErrorReply EXCEPT !.message = message]

\* the catch block of POST /register
registerCatch(message) ==
  IF message = EmailAlreadyRegistered THEN DuplicateEmailReply
  ELSE ServerErrorReply

\* replies of DELETE /:email
UserDeletedReply ==
  [status |-> 200, success |-> TRUE, errors |-> << >>,
   message |-> "User deleted successfully", data |-> NoData, list |-> << >>]

UserNotFoundReply ==
  [status |-> 404, success |-> FALSE, errors |-> << >>,
   message |-> "User not found", data |-> NoData, list |-> << >>]

DeleteErrorReply ==
  [status |-> 500, success |-> FALSE, errors |-> << >>,
   message |-> "An error occurred while deleting user", data |-> NoData, list |-> << >>]

\* replies of GET /: data is the array of users, held in list
UsersReply(list) ==
  [status |-> 200, success |-> TRUE, errors |-> << >>, message |-> "",
   data |-> NoData, list |-> list]

FetchErrorReply ==
  [status |-> 500, success |-> FALSE, errors |-> << >>,
   message |-> "An error occurred while fetching users", data |-> NoData, list |-> << >>]

(***************************************************************************)
(* Inputs of the endpoints                                                 *)
(***************************************************************************)
NumRequests == 3

JohnGmailUpper == <<"J","O","H","N">> \o GmailSuffix

DoeGmail == <<"d","o","e">> \o GmailSuffix

Padded(s) == <<" ">> \o s \o <<" ">>

NoBody ==
  [firstName |-> UndefinedValue, lastName |-> UndefinedValue,
   email |-> UndefinedValue, password |-> UndefinedValue]

\* two bodies with the same email up to case, a valid body with padding in
\* every field, a body with one rejected field and a body with no field
RegisterBodies ==
  { [firstName |-> Str(John), lastName |-> Str(Doe),
     email |-> Str(JohnGmail), password |-> Str(GoodPassword)],
    [firstName |-> Str(John), lastName |-> Str(Doe),
     email |-> Str(JohnGmailUpper), password |-> Str(GoodPassword)],
    [firstName |-> Str(Padded(John)), lastName |-> Str(Padded(Doe)),
     email |-> Str(Padded(DoeGmail)), password |-> Str(Padded(GoodPassword))],
    [firstName |-> Str(<<"J">>), lastName |-> Str(Doe),
     email |-> Str(JohnGmail), password |-> Str(GoodPassword)],
    NoBody }

\* the :email parameter of DELETE requests
DeleteParams == {JohnGmailUpper, DoeGmail}

Requests == 1..NumRequests

InitServer ==
  /\ users = {}
  /\ nextId = 1
  /\ reqs = [ r \in Requests |->
               [kind |-> "none", pc |-> "new", raw |-> NoBody, body |-> NoBody,
                param |-> << >>, lookup |-> << >>, thrown |-> NoError,
                hashed |-> << >>, reply |-> NoReply] ]

\* POST /register arrives and validateRegistration runs: 400, or the trimmed body and next()
validateRegistration(r, body) ==
  /\ reqs[r].pc = "new"
  /\ LET errs == registrationErrors(body)
     IN  reqs' = [reqs EXCEPT ![r] =
                    IF Len(errs) > 0
                      THEN [@ EXCEPT !.kind = "register", !.pc = "done", !.raw = body,
                                     !.body = body, !.reply = ValidationErrorReply(errs)]
                      ELSE [@ EXCEPT !.kind = "register", !.pc = "find", !.raw = body,
                                     !.body = trimmedBody(body)]]
  /\ UNCHANGED <<users, nextId, formVars, ruleVars, variantVars>>

\* createUser up to the pre-check: the SELECT (which query() may fail), then the
\* throw of 'Email already registered'; the route's catch block answers a throw
createUserFind(r, dbOk) ==
  /\ reqs[r].pc = "find"
  /\ LET email == reqs[r].body.email.v
         message == IF ~dbOk THEN ConnectionFailure
                    ELSE IF findUserByEmail(users, email) # {} THEN EmailAlreadyRegistered
                    ELSE NoError
     IN  reqs' = [reqs EXCEPT ![r] =
                    IF message # NoError
                      THEN [@ EXCEPT !.pc = "done", !.lookup = ToLowerCase(email),
                                     !.thrown = message, !.reply = registerCatch(message)]
                      ELSE [@ EXCEPT !.pc = "hash", !.lookup = ToLowerCase(email)]]
  /\ UNCHANGED <<users, nextId, formVars, ruleVars, variantVars>>

\* createUser: await hashPassword(input.password)
createUserHash(r) ==
  /\ reqs[r].pc = "hash"
  /\ reqs' = [reqs EXCEPT ![r] =
                [@ EXCEPT !.pc = "insert", !.hashed = hashPassword(reqs[r].body.password.v)]]
  /\ UNCHANGED <<users, nextId, formVars, ruleVars, variantVars>>

\* createUser: the INSERT under the UNIQUE constraint on users.email.  A violation
\* makes query() throw the database's error, which the route's catch block answers.
\* created_at is the database's clock, here the position in the order of inserts.
createUserInsert(r, dbOk) ==
  /\ reqs[r].pc = "insert"
  /\ LET body == reqs[r].body
         row == [id |-> nextId, first_name |-> body.firstName.v,
                 last_name |-> body.lastName.v, email |-> ToLowerCase(body.email.v),
                 password |-> reqs[r].hashed, created_at |-> nextId]
         message == IF ~dbOk THEN ConnectionFailure
                    ELSE IF \E u \in users : u.email = row.email THEN UniqueViolation
                    ELSE NoError
     IN  IF message # NoError
           THEN /\ reqs' = [reqs EXCEPT ![r] =
                              [@ EXCEPT !.pc = "done", !.thrown = message,
                                        !.reply = registerCatch(message)]]
                /\ users' = users
           ELSE /\ reqs' = [reqs EXCEPT ![r] =
                              [@ EXCEPT !.pc = "done", !.reply = CreatedReply(userToResponse(row))]]
                /\ users' = users \cup {row}
  /\ nextId' = IF dbOk THEN nextId + 1 ELSE nextId
  /\ UNCHANGED <<formVars, ruleVars, variantVars>>

\* DELETE /:email: deleteUserByEmail, then 200, 404, or 500 when query() throws
deleteUser(r, email, dbOk) ==
  /\ reqs[r].pc = "new"
  /\ LET remaining == deleteUserByEmail(users, email)
         deleted == Cardinality(users \ remaining) > 0
     IN  IF ~dbOk
           THEN /\ reqs' = [reqs EXCEPT ![r] =
                              [@ EXCEPT !.kind = "delete", !.pc = "done", !.param = email,
                                        !.thrown = ConnectionFailure,
                                        !.reply = DeleteErrorReply]]
                /\ users' = users
           ELSE /\ reqs' = [reqs EXCEPT ![r] =
                              [@ EXCEPT !.kind = "delete", !.pc = "done", !.param = email,
                                        !.reply = IF deleted THEN UserDeletedReply
                                                  ELSE UserNotFoundReply]]
                /\ users' = remaining
  /\ UNCHANGED <<nextId, formVars, ruleVars, variantVars>>

\* GET /: getAllUsers, then 200 with the users, or 500 when query() throws
getUsers(r, dbOk) ==
  /\ reqs[r].pc = "new"
  /\ reqs' = [reqs EXCEPT ![r] =
                IF dbOk
                  THEN [@ EXCEPT !.kind = "list", !.pc = "done",
                                 !.reply = UsersReply(getAllUsers(users))]
                  ELSE [@ EXCEPT !.kind = "list", !.pc = "done",
                                 !.thrown = ConnectionFailure, !.reply = FetchErrorReply]]
  /\ UNCHANGED <<users, nextId, formVars, ruleVars, variantVars>>

ServerNext ==
  \/ \E r \in Requests : \E body \in RegisterBodies : validateRegistration(r, body)
  \/ \E r \in Requests : \E dbOk \in BOOLEAN : createUserFind(r, dbOk)
  \/ \E r \in Requests : createUserHash(r)
  \/ \E r \in Requests : \E dbOk \in BOOLEAN : createUserInsert(r, dbOk)
  \/ \E r \in Requests : \E email \in DeleteParams : \E dbOk \in BOOLEAN : deleteUser(r, email, dbOk)
  \/ \E r \in Requests : \E dbOk \in BOOLEAN : getUsers(r, dbOk)

(***************************************************************************)
(* The two rule sets applied to one payload                                *)
(***************************************************************************)
NumVariants == 2

Classes == {"upper", "lower", "digit", "special", "other"}

ClassOrder == <<"upper", "lower", "digit", "special", "other">>

\* characters of each class of the password rule, and characters of no class
ClassReps ==
  [upper |-> <<"A", "Z", "M">>, lower |-> <<"a", "z", "m">>, digit |-> <<"0", "9", "5">>,
   special |-> <<"!", ">", "?">>, other |-> <<"_", " ", "-">>]

\* the password of length len that cycles through the classes of set, with
\* the characters of variant v
PasswordOf(set, len, v) ==
  LET cs == SelectSeq(ClassOrder, LAMBDA c : c \in set)
  IN  [ i \in 1..len |-> ClassReps[cs[((i - 1) % Len(cs)) + 1]][((v - 1) % 3) + 1] ]

PasswordLens ==
  {MinPasswordLen - 1, MinPasswordLen, MinPasswordLen + 1,
   MaxPasswordLen - 1, MaxPasswordLen, MaxPasswordLen + 1}

PasswordInputs ==
  { PasswordOf(set, len, v) :
      set \in (SUBSET Classes) \ {{}}, len \in PasswordLens, v \in 1..NumVariants }

LongName(n) == [ i \in 1..n |-> "a" ]

FirstNameInputs ==
  { << >>, <<"J">>, John, Padded(John), <<" ", " ", " ">>,
    LongName(MaxNameLen), LongName(MaxNameLen + 1) }

LastNameInputs == { << >>, Doe, LongName(MaxNameLen + 1) }

YahooEmail == <<"j","o","h","n","@","y","a","h","o","o",".","c","o","m">>

SentinelUpper == <<"T","E","S","T","@","G","M","A","I","L",".","C","O","M">>

\* String.prototype.toUpperCase, one character
UpperChar(c) ==
  IF c \in LowerCase
    THEN UpperSeq[CHOOSE i \in 1..Len(LowerSeq) : LowerSeq[i] = c]
    ELSE c

\* every way of writing test@gmail.com in upper and lower case
SentinelVariants ==
  LET letters == { i \in 1..Len(SentinelEmail) : SentinelEmail[i] \in LowerCase }
  IN  { [ i \in 1..Len(SentinelEmail) |->
            IF i \in up THEN UpperChar(SentinelEmail[i]) ELSE SentinelEmail[i] ] :
        up \in SUBSET letters }

\* addresses of the shape local@domain.tld that do not end in @gmail.com
NonGmailEmails ==
  { YahooEmail,
    <<"a","@","b",".","c","o">>,
    <<"j","o","h","n","@","g","m","a","i","l",".","c","o">>,
    <<"j","o","h","n","@","n","o","t","g","m","a","i","l",".","c","o","m">>,
    <<"j","o","h","n","@","m","a","i","l",".","g","m","a","i","l",".","o","r","g">>,
    <<"J","!","@","G","M","A","I","L",".","C","O","M",".","A","U">> }

\* addresses of the generic shape with domain gmail.com whose local part
\* has a character outside [a-zA-Z0-9._%+-]
GmailOddLocalEmails ==
  { <<"j","!","d","@","g","m","a","i","l",".","c","o","m">>,
    <<"J","#","D","@","G","M","A","I","L",".","C","O","M">> }

EmailInputs ==
  { << >>, JohnGmail, JohnGmailUpper, SentinelEmail, SentinelUpper, YahooEmail,
    <<"j","o","h","n">>, Padded(JohnGmail) }

Payloads ==
  [firstName : FirstNameInputs, lastName : LastNameInputs, email : EmailInputs,
   password : {GoodPassword, << >>}]
  \cup [firstName : {John}, lastName : {Doe}, email : {JohnGmail}, password : PasswordInputs]
  \cup [firstName : {John}, lastName : {Doe}, email : SentinelVariants \cup NonGmailEmails \cup GmailOddLocalEmails,
        password : {GoodPassword}]

\* the body express.json() parses from JSON.stringify(formData)
toBody(data) == [ f \in Fields |-> Str(data[f]) ]

ClientNotRun == [run |-> FALSE, errors |-> EmptyMap]

ServerNotRun == [run |-> FALSE, errors |-> << >>]

LibNotRun == [run |-> FALSE, email |-> Undefined, password |-> Undefined]

InitRules ==
  /\ payload = initialFormData
  /\ clientVerdict = ClientNotRun
  /\ serverVerdict = ServerNotRun
  /\ libVerdict = LibNotRun

\* the client rule set on the payload: the error map validateForm builds
applyClientRules ==
  /\ ~clientVerdict.run
  /\ clientVerdict' = [run |-> TRUE, errors |-> validateFormErrors(payload)]
  /\ UNCHANGED <<payload, serverVerdict, libVerdict, formVars, serverVars, variantVars>>

\* the server mirror on the payload: the errors array validateRegistration builds
applyServerMirror ==
  /\ ~serverVerdict.run
  /\ serverVerdict' = [run |-> TRUE, errors |-> registrationErrors(toBody(payload))]
  /\ UNCHANGED <<payload, clientVerdict, libVerdict, formVars, serverVars, variantVars>>

\* the rule set of the other flow on the payload's email and password
applyLibRules ==
  /\ ~libVerdict.run
  /\ libVerdict' = [run |-> TRUE,
                    email |-> messageOf(libValidateEmail(payload.email)),
                    password |-> messageOf(libValidatePassword(payload.password))]
  /\ UNCHANGED <<payload, clientVerdict, serverVerdict, formVars, serverVars, variantVars>>


(***************************************************************************)
(* validateDateOfBirth applied to one date under one clock                 *)
(***************************************************************************)
MinimumAge == 18

DifferentPassword ==
  <<"D","i","f","f","e","r","e","n","t","P","a","s","s","1","!">>

VariantFields == {"password", "confirmPassword"}

ShortPassword == <<"A","b","1","!">>

VariantValues == { EmptyString, ShortPassword, GoodPassword, DifferentPassword }

NoEvent == [event |-> "none", field |-> "none"]

InitConfirm ==
  /\ vForm = [password |-> EmptyString, confirmPassword |-> EmptyString]
  /\ vErrors = EmptyMap
  /\ vTouched = {}
  /\ vLast = NoEvent

\* the rule of a field of the form with a confirmation, on the form's data
variantValidateField(name, data) ==
  CASE name = "password" -> messageOf(libValidatePassword(data.password))
    [] name = "confirmPassword" ->
         messageOf(validateConfirmPassword(data.password, data.confirmPassword))

\* a change event of field f to value v: the field is validated when touched,
\* and a change of the password validates a touched confirmation again
variantHandleChange(f, v) ==
  LET data == [vForm EXCEPT ![f] = v]
      own == IF f \in vTouched
               THEN SetKey(vErrors, f, variantValidateField(f, data))
               ELSE vErrors
  IN  /\ vForm' = data
      /\ vErrors' = IF f = "password" /\ "confirmPassword" \in vTouched
                      THEN SetKey(own, "confirmPassword",
                                  variantValidateField("confirmPassword", data))
                      ELSE own
      /\ vLast' = [event |-> "change", field |-> f]
      /\ UNCHANGED <<vTouched, dateVars, formVars, serverVars, ruleVars>>

\* a blur event of field f: the field is touched and validated
variantHandleBlur(f) ==
  /\ vTouched' = vTouched \cup {f}
  /\ vErrors' = SetKey(vErrors, f, variantValidateField(f, vForm))
  /\ vLast' = [event |-> "blur", field |-> f]
  /\ UNCHANGED <<vForm, dateVars, formVars, serverVars, ruleVars>>

ConfirmNext ==
  \/ \E f \in VariantFields : \E v \in VariantValues : variantHandleChange(f, v)
  \/ \E f \in VariantFields : variantHandleBlur(f)

YearsBefore(date, n) == Date(date.y - n, date.m, date.d)

TodayInputs == { Date(2026, 11, 1), Date(2026, 3, 1), Date(2026, 1, 1), Date(2026, 6, 15) }

\* hours east of UTC of the browser's time zone
OffsetInputs == { -5, 0, 10 }

\* the hour of the day the wall clock shows
HourInputs == { 9, 22 }

DobDates(today) ==
  { YearsBefore(today, MinimumAge), NextDay(YearsBefore(today, MinimumAge)),
    PrevDay(YearsBefore(today, MinimumAge)), YearsBefore(today, MinimumAge - 1),
    YearsBefore(today, 25), PrevDay(today), today, NextDay(today) }

NoDate == Date(0, 0, 0)

DobInputs ==
  { [kind |-> "date", date |-> d, today |-> t, hour |-> h, offset |-> o] :
      t \in TodayInputs, d \in UNION { DobDates(x) : x \in TodayInputs },
      h \in HourInputs, o \in OffsetInputs }
  \cup { [kind |-> k, date |-> NoDate, today |-> t, hour |-> 9, offset |-> 0] :
           k \in {"empty", "invalid"}, t \in TodayInputs }

DobNotRun == [run |-> FALSE, message |-> Undefined]

InitDate ==
  /\ dobInput = [kind |-> "empty", date |-> NoDate, today |-> Date(2026, 11, 1),
                 hour |-> 9, offset |-> 0]
  /\ dobVerdict = DobNotRun

applyDateRule ==
  /\ ~dobVerdict.run
  /\ dobVerdict' = [run |-> TRUE, message |-> messageOf(validateDateOfBirth(dobInput))]
  /\ UNCHANGED <<dobInput, confirmVars, formVars, serverVars, ruleVars>>

RuleInit ==
  /\ InitForm
  /\ InitServer
  /\ payload \in Payloads
  /\ clientVerdict = ClientNotRun
  /\ serverVerdict = ServerNotRun
  /\ libVerdict = LibNotRun
  /\ InitDate /\ InitConfirm

RuleNext ==
  \/ applyClientRules
  \/ applyServerMirror
  \/ applyLibRules

RuleSpec == RuleInit /\ [][RuleNext]_vars

Init == InitForm /\ InitServer /\ InitRules /\ InitDate /\ InitConfirm

DateInit ==
  /\ InitForm /\ InitServer /\ InitRules /\ InitConfirm
  /\ dobInput \in DobInputs
  /\ dobVerdict = DobNotRun

DateNext == applyDateRule

DateSpec == DateInit /\ [][DateNext]_vars

ConfirmSpec == Init /\ [][ConfirmNext]_vars

Next ==
  \/ \E f \in Fields : \E v \in FieldValues(f) : handleChange(f, v)
  \/ \E f \in Fields : handleBlur(f)
  \/ handleSubmit
  \/ submitValidate
  \/ \E i \in 1..Len(calls) : \E resp \in Responses : callCompletes(i, resp)
  \/ resetTimerFires

Spec == Init /\ [][Next]_vars

ServerSpec == Init /\ [][ServerNext]_vars

\* One response for each path of the continuation of handleSubmit: thrown,
\* success, structured errors, unstructured error
PathResponses ==
  { ThrowResponse,
    [kind |-> "response", ok |-> TRUE, success |-> TRUE, isArray |-> FALSE, list |-> << >>],
    [kind |-> "response", ok |-> FALSE, success |-> FALSE, isArray |-> FALSE, list |-> << >>],
    [kind |-> "response", ok |-> FALSE, success |-> FALSE, isArray |-> TRUE,
     list |-> << [field |-> "email", message |-> "This email address is already registered"] >>] }

\* The form with the call's answers drawn from PathResponses
LiveNext ==
  \/ \E f \in Fields : \E v \in FieldValues(f) : handleChange(f, v)
  \/ \E f \in Fields : handleBlur(f)
  \/ handleSubmit
  \/ submitValidate
  \/ \E i \in 1..Len(calls) : \E resp \in PathResponses : callCompletes(i, resp)
  \/ resetTimerFires

\* A handler that has started runs on, and a call in flight resolves or rejects
\* (the premise of the claim about the submitting flag).
Fairness ==
  /\ WF_vars(submitValidate)
  /\ WF_vars(\E i \in 1..Len(calls) : \E resp \in PathResponses : callCompletes(i, resp))

LiveSpec == Init /\ [][LiveNext]_vars /\ Fairness

(***************************************************************************)
(* Properties of the form and of the endpoint                              *)
(***************************************************************************)
\* C1: at most one registration call is in flight at any moment; a submit
\* event that arrives while isSubmitting is true changes nothing and issues
\* no call; no step issues more than one call.
C1_SingleFlight ==
  [][ /\ Len(calls) <= 1 /\ Len(calls') <= 1
      /\ Len(calls') <= Len(calls) + 1
      /\ (lastEvent' = "submit" /\ isSubmitting)
           => UNCHANGED <<componentState, handlerPc, calls, timers>> ]_vars

\* a submit event was ignored while a call was in flight
C1_Witness ==
  /\ lastEvent = "submit"
  /\ handlerPc = "ready"
  /\ isSubmitting
  /\ Len(calls) = 1

\* C2: of two register requests with the same lower-cased email that both
\* passed the mirror, exactly one is answered 201 and the other gets the
\* duplicate-email reply (409), under every interleaving in which no user
\* is deleted and the store answers every query of the two requests.
C2_ExactlyOneCreated ==
  \A r1, r2 \in Requests :
    ( /\ r1 # r2
      /\ \A r \in Requests : reqs[r].kind # "delete"
      /\ reqs[r1].kind = "register" /\ reqs[r2].kind = "register"
      /\ reqs[r1].pc = "done" /\ reqs[r1].reply.status # 400
      /\ reqs[r2].pc = "done" /\ reqs[r2].reply.status # 400
      /\ reqs[r1].thrown # ConnectionFailure /\ reqs[r2].thrown # ConnectionFailure
      /\ ToLowerCase(reqs[r1].body.email.v) = ToLowerCase(reqs[r2].body.email.v) )
    => \/ reqs[r1].reply.status = 201 /\ reqs[r2].reply = DuplicateEmailReply
       \/ reqs[r2].reply.status = 201 /\ reqs[r1].reply = DuplicateEmailReply

\* C3: the form state changes to success only from warning.
C3_SuccessOnlyFromWarning ==
  [][ (formState # "success" /\ formState' = "success") => formState = "warning" ]_vars

C5_ValidationFailure ==
  [][ (handlerPc = "validate" /\ \E f \in Fields : validateField(f, formData[f]) # Undefined)
        => /\ calls' = calls
           /\ touchedFields' = Fields
           /\ DOMAIN errors' = { f \in Fields : validateField(f, formData[f]) # Undefined }
           /\ \A f \in DOMAIN errors' : errors'[f] = validateField(f, formData[f])
           /\ formState' = "failure"
           /\ isSubmitting' = FALSE
           /\ handlerPc' = "ready"
           /\ formData = initialFormData
                => errors' = [firstName |-> "First name is required",
                              lastName |-> "Last name is required",
                              email |-> "Email is required",
                              password |-> "Password is required"] ]_vars

\* a submit failed validation on two fields while a third was valid
C5_Witness ==
  /\ lastEvent = "validationFailed"
  /\ formState = "failure"
  /\ DOMAIN errors = {"firstName", "email"}
  /\ touchedFields = Fields

\* the last completed call answered a non-success response with an errors array
StructuredFailure ==
  /\ lastEvent = "callCompleted"
  /\ lastResponse.kind = "response"
  /\ ~(lastResponse.ok /\ lastResponse.success)
  /\ lastResponse.isArray

\* C6: after a call that returned a non-success response with a list of
\* {field, message} errors, the error map has a message for exactly the
\* fields the list names, each the server's (last) message for it, and the
\* form state is failure.
C6_ServerErrorsExactly ==
  StructuredFailure
    => LET list == lastResponse.list
       IN  /\ formState = "failure"
           /\ { k \in DOMAIN errors : errors[k] # Undefined }
                = { list[n].field : n \in 1..Len(list) }
           /\ \A n \in 1..Len(list) :
                (\A m \in (n+1)..Len(list) : list[m].field # list[n].field)
                  => errors[list[n].field] = list[n].message

\* the server named only email, while the first name, edited to an invalid
\* value after validation had passed, carries no error
C6_Witness ==
  /\ StructuredFailure
  /\ Len(lastResponse.list) = 1
  /\ lastResponse.list[1].field = "email"
  /\ formData.firstName = <<"J">>
  /\ DOMAIN errors = {"email"}

\* C7: a non-success response without an errors array, and a thrown fetch or
\* body parse, both end in failure with the generic message of their kind
\* on the email field.
C7_GenericFailure ==
  /\ ( /\ lastEvent = "callCompleted"
       /\ lastResponse.kind = "response"
       /\ ~(lastResponse.ok /\ lastResponse.success)
       /\ ~lastResponse.isArray )
       => /\ formState = "failure"
          /\ "email" \in DOMAIN errors
          /\ errors["email"] = "An error occurred during registration"
  /\ (lastEvent = "callCompleted" /\ lastResponse.kind = "throws")
       => /\ formState = "failure"
          /\ "email" \in DOMAIN errors
          /\ errors["email"] = "Unable to connect to server. Please try again."

\* a call has just thrown
C7_Witness ==
  /\ lastEvent = "callCompleted"
  /\ lastResponse.kind = "throws"
  /\ formState = "failure"

\* C8: every submission that does not end in success leaves the form in
\* failure with a message for at least one form field.
C8_FailureHasMessage ==
  ( \/ lastEvent = "validationFailed"
    \/ /\ lastEvent = "callCompleted"
       /\ ~(lastResponse.kind = "response" /\ lastResponse.ok /\ lastResponse.success) )
    => /\ formState = "failure"
       /\ \E f \in Fields : f \in DOMAIN errors /\ errors[f] # Undefined

\* C9: a submission in progress eventually ends with the submitting flag
\* cleared, and with the flag clear a submit is accepted.
C9_FlagEventuallyCleared ==
  /\ isSubmitting ~> ~isSubmitting
  /\ [](( ~isSubmitting /\ handlerPc = "ready" /\ Len(timers) < MaxTimers )
          => ENABLED (handleSubmit /\ isSubmitting'))

\* a new submission was accepted while the reset of an earlier, completed one is pending
C9_Witness ==
  /\ lastEvent = "callIssued"
  /\ isSubmitting
  /\ formData.firstName = John
  /\ Len(timers) = 1

\* C10: the form state is one of the four values; it is warning only while
\* a submission is in progress; a completed attempt ends in success or failure.
C10_WarningOnlyInFlight ==
  /\ formState \in {"idle", "warning", "failure", "success"}
  /\ ~isSubmitting => formState # "warning"
  /\ lastEvent \in {"validationFailed", "callCompleted"}
       => formState \in {"success", "failure"}

\* a call has completed and the attempt is over
C10_Witness ==
  /\ lastEvent = "callCompleted"
  /\ ~isSubmitting
  /\ calls = << >>
  /\ formState = "failure"

\* C11: while a call is in flight a field edit changes only the form data of
\* the edited field and that field's error entry: the touched set, the form
\* state, the submitting flag and the calls in flight stay as they are; the
\* payload of a call is the form data of the submit that issued it, and that
\* data passed every rule.
C11_EditInFlight ==
  [][ /\ (Len(calls) >= 1 /\ lastEvent' = "change")
        => /\ calls' = calls
           /\ formState' = formState
           /\ isSubmitting' = isSubmitting
           /\ touchedFields' = touchedFields
           /\ handlerPc' = "ready"
           /\ \E f \in Fields :
                /\ \A g \in Fields \ {f} : formData'[g] = formData[g]
                /\ DOMAIN errors' \subseteq (DOMAIN errors) \cup {f}
                /\ \A k \in (DOMAIN errors) \ {f} :
                     k \in DOMAIN errors' /\ errors'[k] = errors[k]
      /\ Len(calls') > Len(calls) => calls'[Len(calls')] = formData
      /\ \A i \in 1..Len(calls') : \A f \in Fields :
           validateField(f, calls'[i][f]) = Undefined ]_vars

\* a field was edited to an invalid value while the call was in flight: the
\* payload still holds the value that passed validation
C11_Witness ==
  /\ lastEvent = "change"
  /\ Len(calls) = 1
  /\ formState = "warning"
  /\ formData.firstName = <<"J">>
  /\ calls[1].firstName = John

\* C12: an error message is rendered for a field only if the field is in
\* the touched set, and a field enters the touched set only by a blur (one
\* field at a time) or by the validation of a submit.
C12_ErrorOnlyIfTouched ==
  [][ /\ \A f \in Fields :
           errorRendered(errors', touchedFields', f) => f \in touchedFields'
      /\ touchedFields' \ touchedFields # {}
           => \/ lastEvent' = "blur" /\ Cardinality(touchedFields' \ touchedFields) = 1
              \/ lastEvent' \in {"validationFailed", "callIssued"} ]_vars

\* an untouched field has an error in the map and the error is not rendered
C12_Witness ==
  \E f \in Fields :
    /\ f \notin touchedFields
    /\ errorProp(errors, f) # Undefined
    /\ ~errorRendered(errors, touchedFields, f)

\* the message the mirror's rule of a field gives for a body
serverRuleMessage(body, f) ==
  CASE f = "firstName" -> serverValidateFirstName(body.firstName)
    [] f = "lastName" -> serverValidateLastName(body.lastName)
    [] f = "email" -> serverValidateEmail(body.email)
    [] f = "password" -> serverValidatePassword(body.password)

\* C13: when the mirror runs on a body it either calls next() (every rule
\* passes, no reply yet) or answers 400 with success false and one error
\* per failing rule; on a 400 the body is the one received, nothing is
\* looked up, hashed or stored, and the request never changes again.
C13_MirrorBlocks ==
  [][ \A r \in Requests :
        /\ (reqs[r].pc = "new" /\ reqs'[r].kind = "register")
             => LET body == reqs'[r].raw
                    failing == { f \in Fields : serverRuleMessage(body, f) # None }
                IN  IF failing = {}
                      THEN /\ reqs'[r].pc = "find"
                           /\ reqs'[r].reply = NoReply
                      ELSE /\ reqs'[r].pc = "done"
                           /\ reqs'[r].reply.status = 400
                           /\ reqs'[r].reply.success = FALSE
                           /\ { e.field : e \in SeqRange(reqs'[r].reply.errors) } = failing
                           /\ \A e \in SeqRange(reqs'[r].reply.errors) :
                                e.message = serverRuleMessage(body, e.field)
                           /\ reqs'[r].body = body
                           /\ reqs'[r].lookup = << >> /\ reqs'[r].hashed = << >>
                           /\ users' = users /\ nextId' = nextId
        /\ reqs[r].reply.status = 400 => reqs'[r] = reqs[r] ]_vars

\* a body with no field was answered 400 with four errors while a user is stored
C13_Witness ==
  \E r \in Requests :
    /\ reqs[r].reply.status = 400
    /\ Len(reqs[r].reply.errors) = 4
    /\ reqs[r].body = NoBody
    /\ users # {}

\* C15: the body passed downstream by the mirror has firstName, lastName,
\* email and password trimmed, and the email used by the uniqueness check is
\* the lower-cased trimmed email.
C15_TrimmedDownstream ==
  \A r \in Requests :
    (reqs[r].kind = "register" /\ reqs[r].reply.status # 400)
      => /\ \A f \in Fields : reqs[r].body[f].v = Trim(reqs[r].raw[f].v)
         /\ reqs[r].pc # "find" => reqs[r].lookup = ToLowerCase(Trim(reqs[r].raw.email.v))

\* C16: a request is answered at most once and is answered when its handler
\* ends; a register request is answered 400 with the mirror's errors, 201 with
\* the created user, 409 with the duplicate-email error when createUser threw
\* 'Email already registered', and the fixed 500 reply for any other error.
C16_OneResponse ==
  [][ \A r \in Requests :
        /\ reqs[r].reply # NoReply => reqs'[r].reply = reqs[r].reply
        /\ (reqs'[r].pc = "done") <=> (reqs'[r].reply # NoReply)
        /\ (reqs[r].pc # "done" /\ reqs'[r].pc = "done" /\ reqs'[r].kind = "register")
             => LET errs == registrationErrors(reqs'[r].raw)
                    reply == reqs'[r].reply
                    thrown == reqs'[r].thrown
                IN  IF Len(errs) > 0 THEN reply = ValidationErrorReply(errs)
                    ELSE IF thrown = EmailAlreadyRegistered THEN reply = DuplicateEmailReply
                    ELSE IF thrown # NoError
                      THEN reply = [status |-> 500, success |-> FALSE, errors |-> << >>,
                                    message |-> "An error occurred during registration",
                                    data |-> NoData, list |-> << >>]
                    ELSE /\ reply.status = 201 /\ reply.success
                         /\ \E u \in users' \ users : reply.data = userToResponse(u) ]_vars

\* one request answered 409 and one answered 500 after the store failed
C16_Witness ==
  \E r1, r2 \in Requests :
    /\ reqs[r1].reply.status = 409
    /\ reqs[r2].reply.status = 500 /\ reqs[r2].kind = "register"
    /\ reqs[r2].thrown = ConnectionFailure

\* every stored email is lower-case and no two stored users share an email
StoreLowerCaseUnique(table) ==
  /\ \A u \in table : u.email = ToLowerCase(u.email)
  /\ \A u, w \in table : u.email = w.email => u = w

\* C17: stored emails stay lower-case and unique, and a step of createUser
\* that meets a stored user with its email (ignoring case) throws
\* 'Email already registered' and leaves the store unchanged.
C17_DuplicateFailure ==
  [][ /\ StoreLowerCaseUnique(users')
      /\ \A r \in Requests :
           ( /\ reqs[r].pc \in {"find", "insert"}
             /\ reqs'[r].pc # reqs[r].pc
             /\ reqs'[r].thrown # ConnectionFailure
             /\ \E u \in users : u.email = ToLowerCase(reqs[r].body.email.v) )
           => /\ reqs'[r].thrown = EmailAlreadyRegistered
              /\ users' = users ]_vars

\* C18: DELETE answers 500 and changes nothing when the store fails, else
\* 200 and the store without the users whose email equals the parameter
\* ignoring case, else 404 and the store unchanged; no other user is removed.
C18_Delete ==
  [][ \A r \in Requests :
        (reqs[r].pc = "new" /\ reqs'[r].kind = "delete")
          => LET match == { u \in users :
                             ToLowerCase(u.email) = ToLowerCase(reqs'[r].param) }
                 reply == reqs'[r].reply
             IN  /\ users \ users' \subseteq match
                 /\ users' \subseteq users
                 /\ IF reqs'[r].thrown # NoError
                      THEN reply.status = 500 /\ ~reply.success /\ users' = users
                    ELSE IF match # {}
                      THEN reply.status = 200 /\ reply.success /\ users' = users \ match
                    ELSE reply.status = 404 /\ ~reply.success /\ users' = users ]_vars

\* a user was deleted by an email in another case while another user stays stored
C18_Witness ==
  \E r \in Requests :
    /\ reqs[r].kind = "delete"
    /\ reqs[r].reply.status = 200
    /\ reqs[r].param = JohnGmailUpper
    /\ \E u \in users : u.email = DoeGmail

ResponseKeys == {"id", "firstName", "lastName", "email", "createdAt"}

\* C19: the data of a 201 reply and every element of the list of GET /
\* have the keys id, firstName, lastName, email, createdAt and no other, and
\* no value in them is a stored or computed hash or a received password.
C19_NoCredential ==
  \A r \in Requests :
    LET shown == (IF reqs[r].reply.status = 201 THEN {reqs[r].reply.data} ELSE {})
                   \cup SeqRange(reqs[r].reply.list)
    IN  \A d \in shown :
          /\ DOMAIN d = ResponseKeys
          /\ \A q \in Requests :
               (reqs[q].kind = "register" /\ reqs[q].pc \notin {"new", "find", "hash"}
                  /\ reqs[q].reply.status # 400)
                 => \A k \in {"firstName", "lastName", "email"} :
                      d[k] # reqs[q].hashed /\ d[k] # reqs[q].raw.password.v

\* GET / listed two users after two registrations
C19_Witness ==
  \E r1, r2 \in Requests :
    /\ reqs[r1].reply.status = 201
    /\ reqs[r2].kind = "list" /\ Len(reqs[r2].reply.list) = 2

\* the message the client rule set gives for a field, Undefined when it passes
clientMessage(f) ==
  IF f \in DOMAIN clientVerdict.errors THEN clientVerdict.errors[f] ELSE Undefined

\* the message the server mirror gives for a field, None when it passes
serverMessage(f) ==
  IF \E e \in SeqRange(serverVerdict.errors) : e.field = f
    THEN (CHOOSE e \in SeqRange(serverVerdict.errors) : e.field = f).message
    ELSE None

\* C14: on every payload the client rule set and the server mirror reject
\* the same fields, each with the same message.
C14_SameVerdict ==
  (clientVerdict.run /\ serverVerdict.run)
    => \A f \in Fields :
         /\ (clientMessage(f) = Undefined) <=> (serverMessage(f) = None)
         /\ clientMessage(f) # Undefined => clientMessage(f) = serverMessage(f)

\* the classes of the password rule that a password has no character of
ClassChars ==
  [upper |-> UpperCase, lower |-> LowerCase, digit |-> Digits, special |-> SpecialChars]

MissingClasses(password) ==
  { c \in DOMAIN ClassChars : ~\E i \in 1..Len(password) : password[i] \in ClassChars[c] }

ClassMessage ==
  [upper |-> "Password must contain at least one uppercase letter",
   lower |-> "Password must contain at least one lowercase letter",
   digit |-> "Password must contain at least one number",
   special |-> "Password must contain at least one special character"]

\* C20: a password of 8 to 30 characters with a character of each of the
\* four classes passes the client rule and the server mirror; one that
\* lacks exactly one class fails in both with the message of that class.
C20_PasswordClasses ==
  LET password == payload.password
      missing == MissingClasses(password)
  IN  (Len(password) >= 8 /\ Len(password) <= 30)
        => /\ (clientVerdict.run /\ missing = {}) => clientMessage("password") = Undefined
           /\ (serverVerdict.run /\ missing = {}) => serverMessage("password") = None
           /\ \A c \in missing :
                missing = {c}
                  => /\ clientVerdict.run => clientMessage("password") = ClassMessage[c]
                     /\ serverVerdict.run => serverMessage("password") = ClassMessage[c]

\* both rule sets rejected a password of 30 characters that has every class but a digit
C20_Witness ==
  /\ Len(payload.password) = 30
  /\ MissingClasses(payload.password) = {"digit"}
  /\ clientVerdict.run /\ serverVerdict.run
  /\ clientMessage("password") = ClassMessage["digit"]
  /\ serverMessage("password") = ClassMessage["digit"]

\* the classes, in the order of the checks, that a password has no character of
FirstMissingClass(password) ==
  LET missing == MissingClasses(password)
      at == CHOOSE i \in 1..4 :
              /\ ClassOrder[i] \in missing
              /\ \A j \in 1..(i - 1) : ClassOrder[j] \notin missing
  IN  ClassOrder[at]

MinLengthMessages ==
  {"Password must be at least 8 characters", "Password must be at least 8 characters long"}

\* C21: with every character class present, a password of 7 characters
\* fails the minimum-length check, one of 31 characters fails with
\* 'Password must not exceed 30 characters', and passwords of 8 and of 30
\* characters pass, in the client rule, the server mirror and the rule of
\* the other flow.
C21_LengthBounds ==
  LET password == payload.password
      n == Len(password)
      verdicts ==
        (IF clientVerdict.run THEN {clientMessage("password")} ELSE {})
        \cup (IF serverVerdict.run
                THEN {IF serverMessage("password") = None THEN Undefined
                      ELSE serverMessage("password")}
                ELSE {})
        \cup (IF libVerdict.run THEN {libVerdict.password} ELSE {})
  IN  MissingClasses(password) = {}
        => \A m \in verdicts :
             /\ n = 7 => m \in MinLengthMessages
             /\ n = 31 => m = "Password must not exceed 30 characters"
             /\ n \in {8, 30} => m = Undefined

\* the message the order of the checks gives a password, Undefined when it passes
ExpectedPasswordMessage(password) ==
  IF Len(password) = 0 THEN "Password is required"
  ELSE IF Len(password) < 8 THEN "Password must be at least 8 characters"
  ELSE IF Len(password) > 30 THEN "Password must not exceed 30 characters"
  ELSE IF MissingClasses(password) # {} THEN ClassMessage[FirstMissingClass(password)]
  ELSE Undefined

\* C22: the client rule and the server mirror give a password the message
\* of the first failing check in the order empty, shorter than 8, longer
\* than 30, no upper case, no lower case, no digit, no special character,
\* and no message when no check fails.
C22_FirstFailingCheck ==
  LET expected == ExpectedPasswordMessage(payload.password)
  IN  /\ clientVerdict.run => clientMessage("password") = expected
      /\ serverVerdict.run
           => serverMessage("password") = (IF expected = Undefined THEN None ELSE expected)

\* a password of 8 to 30 characters without lower case and without digit got
\* the lower-case message from both
C22_Witness ==
  /\ Len(payload.password) = 9
  /\ MissingClasses(payload.password) = {"lower", "digit"}
  /\ clientVerdict.run /\ serverVerdict.run
  /\ clientMessage("password") = ClassMessage["lower"]
  /\ serverMessage("password") = ClassMessage["lower"]

\* C23: test@gmail.com written in any mix of upper and lower case fails with
\* 'This email address is already registered' in the client rule and in
\* the server mirror.
C23_SentinelAnyCase ==
  payload.email \in SentinelVariants
    => /\ clientVerdict.run
            => clientMessage("email") = "This email address is already registered"
       /\ serverVerdict.run
            => serverMessage("email") = "This email address is already registered"

\* both rejected Test@Gmail.Com as already registered
C23_Witness ==
  /\ payload.email = <<"T","e","s","t","@","G","m","a","i","l",".","C","o","m">>
  /\ clientVerdict.run /\ serverVerdict.run
  /\ clientMessage("email") = "This email address is already registered"
  /\ serverMessage("email") = "This email address is already registered"

\* s ends in @gmail.com, compared without regard to case
EndsInGmail(s) ==
  /\ Len(s) >= Len(GmailSuffix)
  /\ ToLowerCase(SubSeq(s, Len(s) - Len(GmailSuffix) + 1, Len(s))) = GmailSuffix

\* C24: an address of the shape local@domain.tld that does not end in
\* @gmail.com fails with 'Only Gmail addresses are accepted' in the client
\* rule, the server mirror and the rule of the other flow.
C24_NonGmailRejected ==
  (EmailRegexTest(payload.email) /\ ~EndsInGmail(payload.email))
    => /\ clientVerdict.run => clientMessage("email") = "Only Gmail addresses are accepted"
       /\ serverVerdict.run => serverMessage("email") = "Only Gmail addresses are accepted"
       /\ libVerdict.run => libVerdict.email = "Only Gmail addresses are accepted"

NameLabel == [firstName |-> "First name", lastName |-> "Last name"]

\* the message the rules of a name field give a value, Undefined when it passes
ExpectedNameMessage(f, value) ==
  IF Len(value) = 0 THEN NameLabel[f] \o " is required"
  ELSE IF Len(Trim(value)) < 2 THEN NameLabel[f] \o " must be at least 2 characters"
  ELSE IF Len(Trim(value)) > 100 THEN NameLabel[f] \o " must not exceed 100 characters"
  ELSE Undefined

\* C25: a name field fails with the required message when empty, with the
\* at-least-2 message when its trimmed length is under 2, with the
\* must-not-exceed-100 message when its trimmed length is over 100, and
\* passes otherwise, in the client rule and in the server mirror.
C25_NameRules ==
  \A f \in {"firstName", "lastName"} :
    LET expected == ExpectedNameMessage(f, payload[f])
    IN  /\ clientVerdict.run => clientMessage(f) = expected
        /\ serverVerdict.run
             => serverMessage(f) = (IF expected = Undefined THEN None ELSE expected)

\* calendar date a is before calendar date b
DateBefore(a, b) ==
  \/ a.y < b.y
  \/ a.y = b.y /\ a.m < b.m
  \/ a.y = b.y /\ a.m = b.m /\ a.d < b.d

\* whole years from the birth date to today: the difference of the years,
\* less one when today's month and day precede the birth month and day
WholeYearAge(dob, today) ==
  IF today.m < dob.m \/ (today.m = dob.m /\ today.d < dob.d)
    THEN today.y - dob.y - 1
    ELSE today.y - dob.y

\* C26: for a birth date (year, month, day) and today's date,
\* validateDateOfBirth fails when the birth date is not before today and
\* otherwise passes exactly when the whole-year age is at least 18: 18 years
\* less one day ago fails, exactly 18 years ago and 18 years and one day ago pass.
C26_AgeCheck ==
  (dobVerdict.run /\ dobInput.kind = "date")
    => LET dob == dobInput.date
           today == dobInput.today
           passes == dobVerdict.message = Undefined
       IN  /\ ~DateBefore(dob, today) => ~passes
           /\ DateBefore(dob, today) => (passes <=> WholeYearAge(dob, today) >= 18)
           /\ dob = NextDay(YearsBefore(today, 18)) => ~passes
           /\ dob = YearsBefore(today, 18) => passes
           /\ dob = PrevDay(YearsBefore(today, 18)) => passes

C28_ResetOnlyItsAttempt ==
  [][ ( /\ lastEvent' = "timerFired"
        /\ timers' # timers
        /\ formState \in {"warning", "failure"} )
        => /\ formState' = formState
           /\ formData' = formData
           /\ errors' = errors
           /\ touchedFields' = touchedFields ]_vars

\* C29: in every reachable state of the form, every form field that has a
\* message in the error map is in the touched set.
C29_ErrorsOnlyOnTouched ==
  \A f \in Fields : errorProp(errors, f) # Undefined => f \in touchedFields

\* C30: every accepted submit sets the form state to Idle whatever it was
\* before, and the form state becomes Warning only in the validation step of
\* an accepted submit, from Idle, when the whole form validates.
C30_SubmitResetsToIdle ==
  [][ /\ (handlerPc = "ready" /\ handlerPc' = "validate")
           => (lastEvent' = "submit" /\ ~isSubmitting /\ formState' = "idle")
      /\ (lastEvent' = "submit" /\ ~isSubmitting)
           => (handlerPc' = "validate" /\ formState' = "idle")
      /\ (formState' = "warning" /\ formState # "warning")
           => /\ formState = "idle"
              /\ handlerPc = "validate"
              /\ lastEvent' = "callIssued"
              /\ validateFormErrors(formData) = EmptyMap ]_vars

\* a submit was accepted from Failure with valid data: the form is Idle again,
\* about to validate, with the failure's message still in the error map
C30_Witness ==
  /\ handlerPc = "validate"
  /\ formState = "idle"
  /\ lastEvent = "submit"
  /\ errorProp(errors, "email") = "Unable to connect to server. Please try again."
  /\ validateFormErrors(formData) = EmptyMap

\* C31: a change event alters the value of one field only, leaves the touched
\* set, the form state and the submitting flag alone, leaves the error map
\* alone when the field is untouched and otherwise sets only that field's
\* error entry to the result of its rule on the new value; a blur event
\* leaves the form data, the form state and the submitting flag alone, adds
\* only its field to the touched set and sets only that field's error entry
\* to the result of its rule.
C31_FieldEventsAreLocal ==
  [][ /\ (lastEvent' = "change" /\ formVars' # formVars)
           => \E f \in Fields :
                /\ \A g \in Fields \ {f} : formData'[g] = formData[g]
                /\ touchedFields' = touchedFields
                /\ formState' = formState
                /\ isSubmitting' = isSubmitting
                /\ \A g \in Fields \ {f} : errorProp(errors', g) = errorProp(errors, g)
                /\ IF f \in touchedFields
                     THEN errorProp(errors', f) = validateField(f, formData'[f])
                     ELSE errors' = errors
      /\ (lastEvent' = "blur" /\ formVars' # formVars)
           => \E f \in Fields :
                /\ formData' = formData
                /\ touchedFields' = touchedFields \cup {f}
                /\ formState' = formState
                /\ isSubmitting' = isSubmitting
                /\ \A g \in Fields \ {f} : errorProp(errors', g) = errorProp(errors, g)
                /\ errorProp(errors', f) = validateField(f, formData[f]) ]_vars

\* after a failed submit the email was blurred: its entry is set, the
\* messages of the other fields and the Failure state are still there
C31_Witness ==
  /\ lastEvent = "blur"
  /\ formState = "failure"
  /\ formData["email"] = JohnGmail
  /\ errorProp(errors, "email") = Undefined
  /\ errorProp(errors, "firstName") = "First name is required"
  /\ errorProp(errors, "password") = "Password is required"

\* C32: the error list the mirror builds for a body has exactly one entry
\* for each field whose rule fails and none for the others, each with that
\* rule's message, in the order firstName, lastName, email, password; a body
\* in which all four fields are missing yields four entries.
C32_OneEntryPerFailingField ==
  serverVerdict.run =>
    LET errs == serverVerdict.errors
        body == toBody(payload)
        failing == { f \in Fields : serverRuleMessage(body, f) # None }
        position(f) == CHOOSE i \in 1..Len(FieldOrder) : FieldOrder[i] = f
    IN  /\ Len(errs) = Cardinality(failing)
        /\ \A i \in 1..Len(errs) :
             /\ errs[i].field \in failing
             /\ errs[i].message = serverRuleMessage(body, errs[i].field)
        /\ \A i, j \in 1..Len(errs) :
             i < j => position(errs[i].field) < position(errs[j].field)
        /\ (\A f \in Fields : Missing(body[f])) => Len(errs) = 4

\* the mirror ran on a payload whose four fields are all missing
C32_Witness ==
  /\ serverVerdict.run
  /\ \A f \in Fields : Missing(toBody(payload)[f])
  /\ Len(serverVerdict.errors) = 4
  /\ serverVerdict.errors[1].field = "firstName"
  /\ serverVerdict.errors[4].field = "password"

\* the message the email rule is to give address s: the checks empty, generic
\* shape, domain gmail.com, sentinel, in that order; Undefined when s passes
ExpectedEmailMessage(s) ==
  IF Len(s) = 0 THEN "Email is required"
  ELSE IF ~EmailRegexTest(s) THEN "Please enter a valid email address"
  ELSE IF ~EndsInGmail(s) THEN "Only Gmail addresses are accepted"
  ELSE IF ToLowerCase(s) = SentinelEmail THEN "This email address is already registered"
  ELSE Undefined

\* C33: the client email rule and the server mirror's email rule give the
\* message of the first failing check in the order empty, generic shape,
\* Gmail domain, sentinel, where the Gmail check fails exactly when the
\* domain is not gmail.com without regard to case; an address of the generic
\* shape with domain gmail.com that is not the sentinel passes.
C33_GmailDomainOnly ==
  /\ clientVerdict.run => clientMessage("email") = ExpectedEmailMessage(payload.email)
  /\ serverVerdict.run =>
       LET expected == ExpectedEmailMessage(Trim(payload.email))
       IN  serverMessage("email") = (IF expected = Undefined THEN None ELSE expected)

\* the spellings of stored emails that requests use
EmailSpellings == {JohnGmail, JohnGmailUpper, DoeGmail}

\* the rows stored under the lower-case form of spelling v
StoredUnder(table, v) == { u \in table : u.email = ToLowerCase(v) }

\* C34: findUserByEmail of any spelling returns the row stored under its
\* lower-case form; a createUser that succeeds stores one row that every
\* spelling of its email finds, and it succeeds exactly when no row was
\* stored under the email; a row stays until a delete of one of its
\* spellings answers 200; a delete answers 200 exactly when a row was stored
\* under its parameter, and afterwards no spelling of it finds a row.
C34_RoundTrip ==
  [][ /\ users' # users
           => \A v \in EmailSpellings : findUserByEmail(users', v) = StoredUnder(users', v)
      /\ \A r \in Requests :
         reqs'[r].pc # reqs[r].pc =>
           /\ (reqs[r].pc = "find" /\ reqs'[r].pc = "hash")
                => StoredUnder(users, reqs[r].body.email.v) = {}
           /\ (reqs[r].pc = "find" /\ reqs'[r].thrown = EmailAlreadyRegistered)
                => StoredUnder(users, reqs[r].body.email.v) # {}
           /\ (reqs[r].pc = "insert" /\ reqs'[r].reply.status = 201)
                => /\ Cardinality(users' \ users) = 1
                   /\ \A v \in EmailSpellings :
                        ToLowerCase(v) = ToLowerCase(reqs[r].body.email.v)
                          => /\ StoredUnder(users, v) = {}
                             /\ findUserByEmail(users', v) = users' \ users
           /\ (reqs[r].pc = "new" /\ reqs'[r].kind = "delete" /\ reqs'[r].reply.status # 500)
                => /\ (reqs'[r].reply = UserDeletedReply)
                        <=> (StoredUnder(users, reqs'[r].param) # {})
                   /\ (reqs'[r].reply = UserNotFoundReply)
                        <=> (StoredUnder(users, reqs'[r].param) = {})
                   /\ users' = users \ StoredUnder(users, reqs'[r].param)
                   /\ \A v \in EmailSpellings :
                        ToLowerCase(v) = ToLowerCase(reqs'[r].param)
                          => findUserByEmail(users', v) = {}
      /\ users' # users => \A u \in users \ users' :
           \E r \in Requests :
             /\ reqs[r].pc = "new" /\ reqs'[r].kind = "delete"
             /\ reqs'[r].reply = UserDeletedReply
             /\ ToLowerCase(reqs'[r].param) = u.email ]_vars

\* john@gmail.com was created, deleted as JOHN@gmail.com and created again
C34_Witness ==
  /\ \E u \in users : u.email = ToLowerCase(JohnGmail) /\ u.id = 2
  /\ \E r \in Requests :
       /\ reqs[r].kind = "delete" /\ reqs[r].param = JohnGmailUpper
       /\ reqs[r].reply = UserDeletedReply
  /\ findUserByEmail(users, JohnGmailUpper) # {}

\* C35: a row is written only by the INSERT step of a createUser whose
\* pre-check found no user; its password column is the hash of the password
\* createUser was given, computed before the INSERT, and is not that
\* password itself; a createUser whose pre-check finds a user throws, writes
\* no row, hashes nothing and does nothing further.
C35_HashBeforePersist ==
  [][ /\ \A r \in Requests :
           reqs'[r].pc # reqs[r].pc =>
             /\ (reqs[r].pc = "find" /\ reqs'[r].thrown = EmailAlreadyRegistered)
                  => /\ users' = users
                     /\ reqs'[r].pc = "done"
                     /\ reqs'[r].hashed = << >>
             /\ (reqs[r].pc = "insert" /\ reqs'[r].reply.status = 201)
                  => /\ reqs[r].thrown = NoError
                     /\ reqs[r].hashed = hashPassword(reqs[r].body.password.v)
                     /\ \A u \in users' \ users :
                          /\ u.password = reqs[r].hashed
                          /\ u.password # reqs[r].body.password.v
                          /\ u.password # reqs[r].raw.password.v
      /\ \A r \in Requests : reqs[r].pc = "done" => reqs'[r] = reqs[r]
      /\ users' # users => \A u \in users' \ users :
           \E r \in Requests :
             /\ reqs[r].pc = "insert" /\ reqs'[r].reply.status = 201
             /\ reqs'[r].reply.data.id = u.id ]_vars

\* one user is stored with the hash of Password1! and a later createUser
\* with the same email was refused by the pre-check
C35_Witness ==
  /\ \E u \in users : u.password = hashPassword(GoodPassword) /\ u.password # GoodPassword
  /\ Cardinality(users) = 1
  /\ \E r \in Requests : reqs[r].thrown = EmailAlreadyRegistered /\ reqs[r].pc = "done"

====
